---- MODULE Spec2Model ----
(***************************************************************************)
(* Model of app.py: the room index builder (build_room_index), the         *)
(* deterministic query engine (answer, best_room_match) and the 3D viewer  *)
(* (plot_ifc_mesh_basic).                                                  *)
(*                                                                         *)
(* A Python str is a sequence of one-character strings, so that lower(),   *)
(* strip(), the regular expressions and the substring tests of the source  *)
(* are computed character by character.  The fixed text of an answer is    *)
(* kept as literal pieces, the interpolated values as character sequences. *)
(* Literal pieces are written with ' for the backquote, " for the German   *)
(* quotation marks and - for the en dash of the source's messages.         *)
(***************************************************************************)
EXTENDS Integers, Sequences, FiniteSets, TLC

VARIABLES
  ifc,        \* the opened model: spaces and the two kinds of relationship records
  index,      \* the result of build_room_index(ifc), NoIndex before the build
  question,   \* the last question passed to answer
  response,   \* what answer did with it: [raised, text]
  merged,     \* build_room_index's local uniq of every room, as the build left it
  pc,         \* "opened" -> "built" -> "answered"; of a session: where its last run ended
  geom,       \* the viewer's input: IFC_GEOM_OK, the requested classes, their elements
  fig,        \* the figure plot_ifc_mesh_basic returned, NoFig before the call
  gpc,        \* "ready" -> "plotted"
  chat,       \* st.session_state.chat, << >> while the session has no such key
  builds,     \* calls of build_room_index since the loaded model's content last changed
  runs        \* script runs of the session so far

vars == <<ifc, index, merged, question, response, pc, geom, fig, gpc, chat, builds, runs>>

-----------------------------------------------------------------------------
(* Bounds of the model.                                                    *)

MaxRooms == 2
MaxEdges == 2
QMaxRooms == 2
QMaxEdges == 2
MaxClasses == 3
SmallCount == 20
MaxRuns == 5
MaxAsked == 1

-----------------------------------------------------------------------------
(* Python values.                                                          *)

\* None, kept apart from every str (no character is called "None").
None == <<"None">>

\* bool(x) of a str or None.
Truthy(x) == x # None /\ Len(x) > 0

safe_str(x) == IF x = None THEN << >> ELSE x

\* The characters the model uses, in code point order.
CodePoints ==
  << "\t", " ", "\"", "$", ".",
     "0", "1", "2", "3", "4", "5", "6", "7", "8", "9", "?",
     "A", "B", "C", "D", "E", "F", "G", "H", "I", "J", "K", "L", "M",
     "N", "O", "P", "Q", "R", "S", "T", "U", "V", "W", "X", "Y", "Z",
     "_",
     "a", "b", "c", "d", "e", "f", "g", "h", "i", "j", "k", "l", "m",
     "n", "o", "p", "q", "r", "s", "t", "u", "v", "w", "x", "y", "z",
     "Ä", "Ö", "Ü", "ä", "ö", "ü" >>

Chars == {CodePoints[i] : i \in 1..Len(CodePoints)}

OrdOf == [c \in Chars |-> CHOOSE i \in 1..Len(CodePoints) : CodePoints[i] = c]

\* ord(c)
Ord(c) == OrdOf[c]

UpperChars ==
  << "A", "B", "C", "D", "E", "F", "G", "H", "I", "J", "K", "L", "M",
     "N", "O", "P", "Q", "R", "S", "T", "U", "V", "W", "X", "Y", "Z",
     "Ä", "Ö", "Ü" >>

LowerChars ==
  << "a", "b", "c", "d", "e", "f", "g", "h", "i", "j", "k", "l", "m",
     "n", "o", "p", "q", "r", "s", "t", "u", "v", "w", "x", "y", "z",
     "ä", "ö", "ü" >>

Digits == {"0", "1", "2", "3", "4", "5", "6", "7", "8", "9"}

UpperSet == {UpperChars[i] : i \in 1..Len(UpperChars)}

LowerSet == {LowerChars[i] : i \in 1..Len(LowerChars)}

LowerOf ==
  [c \in Chars |->
     IF c \in UpperSet
       THEN LowerChars[CHOOSE i \in 1..Len(UpperChars) : UpperChars[i] = c]
       ELSE c]

UpperOf ==
  [c \in Chars |->
     IF c \in LowerSet
       THEN UpperChars[CHOOSE i \in 1..Len(LowerChars) : LowerChars[i] = c]
       ELSE c]

\* c.lower() / c.upper() of one character
ToLower(c) == LowerOf[c]

ToUpper(c) == UpperOf[c]

SpaceSet == {" ", "\t"}

WordSet == UpperSet \cup LowerSet \cup Digits \cup {"_"}

IdCharSet ==
  Digits \cup {"_", "$"} \cup {UpperChars[i] : i \in 1..26} \cup {LowerChars[i] : i \in 1..26}

\* \s
IsSpace(c) == c \in SpaceSet

\* \w (Unicode: letters, digits, underscore)
IsWord(c) == c \in WordSet

\* [0-9a-zA-Z_$]
IsIdChar(c) == c \in IdCharSet

Lower(s) == [i \in 1..Len(s) |-> ToLower(s[i])]

RECURSIVE LStrip(_)
LStrip(s) == IF Len(s) > 0 /\ IsSpace(s[1]) THEN LStrip(Tail(s)) ELSE s

RECURSIVE RStrip(_)
RStrip(s) ==
  IF Len(s) > 0 /\ IsSpace(s[Len(s)]) THEN RStrip(SubSeq(s, 1, Len(s) - 1)) ELSE s

Strip(s) == RStrip(LStrip(s))

\* re.sub(r"\s+", " ", s)
RECURSIVE CollapseSpaces(_)
CollapseSpaces(s) ==
  IF Len(s) = 0 THEN << >>
  ELSE IF IsSpace(s[1]) THEN <<" ">> \o CollapseSpaces(LStrip(s))
  ELSE <<s[1]>> \o CollapseSpaces(Tail(s))

normalize(s) == CollapseSpaces(Lower(Strip(IF Truthy(s) THEN s ELSE << >>)))

\* needle in hay
Contains(needle, hay) ==
  \E i \in 0..(Len(hay) - Len(needle)) : SubSeq(hay, i + 1, i + Len(needle)) = needle

\* a < b for two str (code point order)
RECURSIVE StrLess(_, _)
StrLess(a, b) ==
  IF Len(b) = 0 THEN FALSE
  ELSE IF Len(a) = 0 THEN TRUE
  ELSE IF a[1] = b[1] THEN StrLess(Tail(a), Tail(b))
  ELSE Ord(a[1]) < Ord(b[1])

\* str.capitalize()
Capitalize(s) ==
  IF Len(s) = 0 THEN s ELSE <<ToUpper(s[1])>> \o Lower(Tail(s))

Range(s) == {s[i] : i \in 1..Len(s)}

\* d[k] = v on a dict kept as a sequence of [k, v] in insertion order.
DictSet(d, k, v) ==
  IF \E i \in 1..Len(d) : d[i].k = k
    THEN [i \in 1..Len(d) |-> IF d[i].k = k THEN [k |-> k, v |-> v] ELSE d[i]]
    ELSE Append(d, [k |-> k, v |-> v])

-----------------------------------------------------------------------------
(* Configuration and helpers of the index builder.                         *)

GA_CLASSES ==
  << [cat |-> <<"l", "ü", "f", "t", "u", "n", "g">>,
      classes |-> {<<"I", "f", "c", "D", "u", "c", "t", "S", "e", "g", "m", "e", "n", "t">>, <<"I", "f", "c", "D", "u", "c", "t", "F", "i", "t", "t", "i", "n", "g">>, <<"I", "f", "c", "F", "a", "n">>, <<"I", "f", "c", "A", "i", "r", "T", "e", "r", "m", "i", "n", "a", "l">>, <<"I", "f", "c", "D", "a", "m", "p", "e", "r">>}],
     [cat |-> <<"h", "e", "i", "z", "e", "n">>,
      classes |-> {<<"I", "f", "c", "R", "a", "d", "i", "a", "t", "o", "r">>, <<"I", "f", "c", "B", "o", "i", "l", "e", "r">>, <<"I", "f", "c", "P", "i", "p", "e", "S", "e", "g", "m", "e", "n", "t">>, <<"I", "f", "c", "H", "e", "a", "t", "E", "x", "c", "h", "a", "n", "g", "e", "r">>,
                   <<"I", "f", "c", "B", "u", "i", "l", "d", "i", "n", "g", "E", "l", "e", "m", "e", "n", "t", "P", "r", "o", "x", "y">>}],
     [cat |-> <<"k", "ü", "h", "l", "e", "n">>,
      classes |-> {<<"I", "f", "c", "C", "h", "i", "l", "l", "e", "r">>, <<"I", "f", "c", "C", "o", "o", "l", "i", "n", "g", "T", "o", "w", "e", "r">>, <<"I", "f", "c", "C", "o", "i", "l">>, <<"I", "f", "c", "C", "o", "v", "e", "r", "i", "n", "g">>}],
     [cat |-> <<"l", "i", "c", "h", "t">>,
      classes |-> {<<"I", "f", "c", "L", "i", "g", "h", "t", "F", "i", "x", "t", "u", "r", "e">>, <<"I", "f", "c", "L", "a", "m", "p">>}],
     [cat |-> <<"s", "t", "e", "u", "e", "r", "u", "n", "g">>,
      classes |-> {<<"I", "f", "c", "S", "e", "n", "s", "o", "r">>, <<"I", "f", "c", "A", "c", "t", "u", "a", "t", "o", "r">>, <<"I", "f", "c", "C", "o", "n", "t", "r", "o", "l", "l", "e", "r">>, <<"I", "f", "c", "A", "l", "a", "r", "m">>,
                   <<"I", "f", "c", "U", "n", "i", "t", "a", "r", "y", "C", "o", "n", "t", "r", "o", "l", "E", "l", "e", "m", "e", "n", "t">>}] >>

classify_ga(element) ==
  IF \E i \in 1..Len(GA_CLASSES) : element.cls \in GA_CLASSES[i].classes
    THEN LET first == CHOOSE i \in 1..Len(GA_CLASSES) :
                        /\ element.cls \in GA_CLASSES[i].classes
                        /\ \A j \in 1..(i - 1) : element.cls \notin GA_CLASSES[j].classes
         IN  GA_CLASSES[first].cat
    ELSE None

\* The properties of one IfcPropertySet, as a dict name -> value.
RECURSIVE ReadProps(_, _)
ReadProps(ps, props) ==
  IF Len(ps) = 0 THEN props
  ELSE LET p == Head(ps)
       IN  IF p.cls = "IfcPropertySingleValue"
             THEN ReadProps(Tail(ps), DictSet(props, safe_str(p.Name), safe_str(p.NominalValue)))
             ELSE ReadProps(Tail(ps), props)

RECURSIVE ReadRels(_, _)
ReadRels(rels, out) ==
  IF Len(rels) = 0 THEN out
  ELSE LET rel == Head(rels)
       IN  IF rel.cls # "IfcRelDefinesByProperties" THEN ReadRels(Tail(rels), out)
           ELSE IF rel.pdef.cls # "IfcPropertySet"
             THEN ReadRels(Tail(rels), out)
           ELSE ReadRels(Tail(rels),
                         DictSet(out, safe_str(rel.pdef.Name),
                                 ReadProps(rel.pdef.HasProperties, << >>)))

\* An element without IsDefinedBy has the empty sequence; a relationship
\* without RelatingPropertyDefinition has a pdef of class "None".
get_psets(element) == ReadRels(element.IsDefinedBy, << >>)

-----------------------------------------------------------------------------
(* build_room_index                                                        *)

\* room_by_gid: the spaces with a GlobalId, keyed by it; a dict keeps the
\* position of a key's first insertion and the value of its last.
RECURSIVE room_by_gid(_, _)
room_by_gid(rooms, d) ==
  IF Len(rooms) = 0 THEN d
  ELSE IF Truthy(Head(rooms).GlobalId)
    THEN room_by_gid(Tail(rooms), DictSet(d, Head(rooms).GlobalId, Head(rooms)))
    ELSE room_by_gid(Tail(rooms), d)

\* contained.get(rid, []) / referenced.get(rid, []): the related elements of
\* the records whose RelatingStructure is an IfcSpace with this GlobalId (a
\* record without RelatingStructure has a container of class None).
RECURSIVE ElementsOf(_, _)
ElementsOf(rels, rid) ==
  IF Len(rels) = 0 THEN << >>
  ELSE LET rel == Head(rels)
           container == rel.RelatingStructure
       IN  IF container.cls = <<"I", "f", "c", "S", "p", "a", "c", "e">> /\ safe_str(container.GlobalId) = rid
             THEN rel.RelatedElements \o ElementsOf(Tail(rels), rid)
             ELSE ElementsOf(Tail(rels), rid)

\* A merge that also drops the second element without GlobalId.
RECURSIVE Dedup_AlsoEmpty(_, _)
Dedup_AlsoEmpty(elems, seen) ==
  IF Len(elems) = 0 THEN << >>
  ELSE LET e == Head(elems)
           gid == safe_str(e.GlobalId)
       IN  IF gid \in seen THEN Dedup_AlsoEmpty(Tail(elems), seen)
           ELSE <<e>> \o Dedup_AlsoEmpty(Tail(elems), seen \cup {gid})

\* The merge of one room: first occurrence of every non-empty GlobalId.
RECURSIVE Dedup(_, _)
Dedup(elems, seen) ==
  IF Len(elems) = 0 THEN << >>
  ELSE LET e == Head(elems)
           gid == safe_str(e.GlobalId)
       IN  IF Truthy(gid) /\ gid \in seen THEN Dedup(Tail(elems), seen)
           ELSE <<e>> \o Dedup(Tail(elems), IF Truthy(gid) THEN seen \cup {gid} ELSE seen)

\* A merge that keeps every candidate.
Uniq_NoDedup(model, rid) ==
  ElementsOf(model.contained, rid) \o ElementsOf(model.referenced, rid)

Uniq(model, rid) ==
  Dedup(ElementsOf(model.contained, rid) \o ElementsOf(model.referenced, rid), {})

Meta(e) ==
  [global_id       |-> safe_str(e.GlobalId),
   ifc_class       |-> e.cls,
   name            |-> safe_str(e.Name),
   object_type     |-> safe_str(e.ObjectType),
   predefined_type |-> safe_str(e.PredefinedType)]

\* An item without its category.
MetaGA_NoCategory(e) ==
  [global_id       |-> safe_str(e.GlobalId),
   ifc_class       |-> e.cls,
   name            |-> safe_str(e.Name),
   object_type     |-> safe_str(e.ObjectType),
   predefined_type |-> safe_str(e.PredefinedType),
   psets           |-> get_psets(e)]

MetaGA(e) ==
  [global_id       |-> safe_str(e.GlobalId),
   ifc_class       |-> e.cls,
   name            |-> safe_str(e.Name),
   object_type     |-> safe_str(e.ObjectType),
   predefined_type |-> safe_str(e.PredefinedType),
   category        |-> classify_ga(e),
   psets           |-> get_psets(e)]

\* A lookup that keeps the first summary written for an identifier.
LookupSet_FirstWins(lookup, gid, meta) == lookup @@ (gid :> meta)

\* A lookup that records classified elements only.
LookupSet_OnlyUnclassified(lookup, gid, meta) ==
  IF \E i \in 1..Len(GA_CLASSES) : meta.ifc_class \in GA_CLASSES[i].classes
    THEN lookup ELSE (gid :> meta) @@ lookup

\* global_lookup[gid] = meta
LookupSet(lookup, gid, meta) == (gid :> meta) @@ lookup

\* The loop over uniq of one room: acc = [lookup, ga_items].  An element whose
\* is_a() raises is skipped before anything is written; one whose IsDefinedBy
\* raises is skipped after its summary was written.
RECURSIVE WalkRoom(_, _)
WalkRoom(uniq, acc) ==
  IF Len(uniq) = 0 THEN acc
  ELSE LET e == Head(uniq)
           gid == safe_str(e.GlobalId)
           lookup1 == IF Truthy(gid) THEN LookupSet(acc.lookup, gid, Meta(e)) ELSE acc.lookup
       IN  IF e.raises = "is_a" THEN WalkRoom(Tail(uniq), acc)
           ELSE IF classify_ga(e) # None /\ e.raises # "IsDefinedBy"
             THEN WalkRoom(Tail(uniq),
                           [lookup |-> lookup1, ga_items |-> Append(acc.ga_items, MetaGA(e))])
           ELSE WalkRoom(Tail(uniq), [lookup |-> lookup1, ga_items |-> acc.ga_items])

RoomName(rid, room) ==
  IF Truthy(safe_str(room.Name)) THEN safe_str(room.Name) ELSE <<"S", "p", "a", "c", "e", "_">> \o rid

RECURSIVE BuildRooms(_, _, _)
BuildRooms(model, byGid, idx) ==
  IF Len(byGid) = 0 THEN idx
  ELSE LET rid == Head(byGid).k
           room == Head(byGid).v
           walked == WalkRoom(Uniq(model, rid), [lookup |-> idx.global_lookup, ga_items |-> << >>])
           entry == [room_id       |-> rid,
                     room_name     |-> RoomName(rid, room),
                     room_longname |-> safe_str(room.LongName),
                     ga_items      |-> walked.ga_items]
       IN  BuildRooms(model, Tail(byGid),
                      [rooms |-> DictSet(idx.rooms, rid, entry), global_lookup |-> walked.lookup])

EmptyLookup == [g \in {} |-> None]

\* The local uniq of every room of the build, keyed by room id.
MergedOf(model) ==
  LET byGid == room_by_gid(model.spaces, << >>)
  IN  [i \in 1..Len(byGid) |-> [k |-> byGid[i].k, v |-> Uniq(model, byGid[i].k)]]

build_room_index(model) ==
  BuildRooms(model, room_by_gid(model.spaces, << >>),
             [rooms |-> << >>, global_lookup |-> EmptyLookup])

-----------------------------------------------------------------------------
(* Reading the index.                                                      *)

\* d.get(key, default) on a record
Get(d, key, default) == IF key \in DOMAIN d THEN d[key] ELSE default

\* list(d.values()) of a dict kept as a sequence of [k, v]
Values(d) == [i \in 1..Len(d) |-> d[i].v]

\* d[k] of such a dict, for a key it holds
Item(d, key) == d[CHOOSE i \in 1..Len(d) : d[i].k = key].v

\* s[:n]
Take(s, n) == SubSeq(s, 1, IF Len(s) < n THEN Len(s) ELSE n)

\* A scan in which a later room of the same length replaces the earlier one.
RECURSIVE best_room_scan_LastTie(_, _, _)
best_room_scan_LastTie(q, rooms, best) ==
  IF Len(rooms) = 0 THEN best.rid
  ELSE LET rid == Head(rooms).k
           r   == Head(rooms).v
           rn  == normalize(Get(r, "room_name", << >>))
           rl  == normalize(Get(r, "room_longname", << >>))
           b1  == IF Truthy(rn) /\ Contains(rn, q) /\ Len(rn) >= best.len
                    THEN [rid |-> rid, len |-> Len(rn)] ELSE best
           b2  == IF Truthy(rl) /\ Contains(rl, q) /\ Len(rl) >= b1.len
                    THEN [rid |-> rid, len |-> Len(rl)] ELSE b1
       IN  best_room_scan_LastTie(q, Tail(rooms), b2)

RECURSIVE best_room_scan(_, _, _)
best_room_scan(q, rooms, best) ==
  IF Len(rooms) = 0 THEN best.rid
  ELSE LET rid == Head(rooms).k
           r   == Head(rooms).v
           rn  == normalize(Get(r, "room_name", << >>))
           rl  == normalize(Get(r, "room_longname", << >>))
           b1  == IF Truthy(rn) /\ Contains(rn, q) /\ Len(rn) > best.len
                    THEN [rid |-> rid, len |-> Len(rn)] ELSE best
           b2  == IF Truthy(rl) /\ Contains(rl, q) /\ Len(rl) > b1.len
                    THEN [rid |-> rid, len |-> Len(rl)] ELSE b1
       IN  best_room_scan(q, Tail(rooms), b2)

best_room_match(quest, idx) ==
  best_room_scan(normalize(quest), Get(idx, "rooms", << >>), [rid |-> None, len |-> 0])

-----------------------------------------------------------------------------
(* The text of an answer: a sequence of pieces, each a literal of the      *)
(* source or an interpolated value.                                        *)

Lit(s) == [lit |-> s, val |-> << >>]
Val(v) == [lit |-> "", val |-> v]
NL == Lit("\n")

Ok(text) == [raised |-> FALSE, text |-> text]
KeyError == [raised |-> TRUE, text |-> << >>]

\* str(n) of an int n >= 0
RECURSIVE IntStr(_)
IntStr(n) ==
  LET d == <<"0", "1", "2", "3", "4", "5", "6", "7", "8", "9">>[(n % 10) + 1]
  IN  IF n < 10 THEN <<d>> ELSE IntStr(n \div 10) \o <<d>>

\* "\n".join(lines) / ", ".join(parts)
RECURSIVE Join(_, _)
Join(sep, lines) ==
  IF Len(lines) = 0 THEN << >>
  ELSE IF Len(lines) = 1 THEN lines[1]
  ELSE lines[1] \o <<sep>> \o Join(sep, Tail(lines))

PsetSampleLimit == 8
PsetPropLimit == 30
SearchHitLimit == 60

PropPiece(p) == <<Val(p.k), Lit("="), Val(p.v)>>

\* The lines of one item in format_ga_items.
RECURSIVE PsetSampleLines(_)
PsetSampleLines(psets) ==
  IF Len(psets) = 0 THEN << >>
  ELSE LET psn == Head(psets).k
           props == Head(psets).v
           sample == Take(props, PsetSampleLimit)
       IN  IF Len(props) = 0 THEN PsetSampleLines(Tail(psets))
           ELSE << <<Lit("  - "), Val(psn), Lit(": ")>>
                     \o Join(Lit(", "), [i \in 1..Len(sample) |-> PropPiece(sample[i])]) >>
                  \o PsetSampleLines(Tail(psets))

ItemLines(it, show_psets) ==
  << <<Lit("- ["), Val(it.category), Lit("] "), Val(it.ifc_class), Lit(" | "),
       Val(Get(it, "name", << >>)), Lit(" | "), Val(Get(it, "global_id", << >>))>> >>
    \o (IF show_psets THEN PsetSampleLines(Get(it, "psets", << >>)) ELSE << >>)

RECURSIVE AllItemLines(_, _)
AllItemLines(items, show_psets) ==
  IF Len(items) = 0 THEN << >>
  ELSE ItemLines(Head(items), show_psets) \o AllItemLines(Tail(items), show_psets)

\* it['category'] and it['ifc_class'] raise KeyError on an item without them.
ItemKeysOk(it) == {"category", "ifc_class"} \subseteq DOMAIN it

format_ga_items(items, show_psets) ==
  IF Len(items) = 0 THEN Ok(<<Lit("Keine GA-relevanten Objekte erkannt.")>>)
  ELSE IF \E i \in 1..Len(items) : ~ItemKeysOk(items[i]) THEN KeyError
  ELSE Ok(Join(NL, AllItemLines(items, show_psets)))

-----------------------------------------------------------------------------
(* The regular expressions of answer.                                      *)

MinIdLen == 6

WordAt(q, k) == k >= 1 /\ k <= Len(q) /\ IsWord(q[k])

\* \b between q[pos - 1] and q[pos]
Boundary(q, pos) == WordAt(q, pos - 1) # WordAt(q, pos)

StartsWith(q, j, w) == j + Len(w) - 1 <= Len(q) /\ SubSeq(q, j, j + Len(w) - 1) = w

RECURSIVE SkipSpaces(_, _)
SkipSpaces(q, j) == IF j <= Len(q) /\ IsSpace(q[j]) THEN SkipSpaces(q, j + 1) ELSE j

\* word \s+ word \s+ ... from position j: the position after the last \s+, 0 if no match
RECURSIVE MatchWords(_, _, _)
MatchWords(q, j, words) ==
  IF Len(words) = 0 THEN j
  ELSE LET after == j + Len(Head(words))
       IN  IF StartsWith(q, j, Head(words)) /\ SkipSpaces(q, after) > after
             THEN MatchWords(q, SkipSpaces(q, after), Tail(words))
             ELSE 0

RECURSIVE IdRun(_, _)
IdRun(q, j) == IF j <= Len(q) /\ IsIdChar(q[j]) THEN 1 + IdRun(q, j + 1) ELSE 0

\* ([0-9a-zA-Z_$]{6,})\b at position j: the longest run that ends at a \b
IdGroup(q, j) ==
  IF j = 0 THEN None
  ELSE LET lens == {l \in MinIdLen..IdRun(q, j) : Boundary(q, j + l)}
       IN  IF lens = {} THEN None
           ELSE SubSeq(q, j, j + (CHOOSE l \in lens : \A m \in lens : m <= l) - 1)

\* \b(alt1|alt2|...)\s+([0-9a-zA-Z_$]{6,})\b at position i: the id, or None
RECURSIVE IdMatchAt(_, _, _)
IdMatchAt(q, i, alts) ==
  IF Len(alts) = 0 \/ ~Boundary(q, i) THEN None
  ELSE LET g == IdGroup(q, MatchWords(q, i, Head(alts)))
       IN  IF g # None THEN g ELSE IdMatchAt(q, i, Tail(alts))

\* re.search: the match at the leftmost position
re_search_id(q, alts) ==
  LET hits == {i \in 1..Len(q) : IdMatchAt(q, i, alts) # None}
  IN  IF hits = {} THEN None
      ELSE IdMatchAt(q, CHOOSE i \in hits : \A j \in hits : i <= j, alts)

RECURSIVE NonQuoteRun(_, _)
NonQuoteRun(q, j) == IF j <= Len(q) /\ q[j] # "\"" THEN 1 + NonQuoteRun(q, j + 1) ELSE 0

\* suche\s+"([^"]+)" at position i, ignoring case: the group, or None
SucheAt(quest, i) ==
  LET j == SkipSpaces(quest, i + 5)
      n == NonQuoteRun(quest, j + 1)
  IN  IF /\ i + 4 <= Len(quest)
         /\ Lower(SubSeq(quest, i, i + 4)) = <<"s", "u", "c", "h", "e">>
         /\ j > i + 5
         /\ j <= Len(quest) /\ quest[j] = "\""
         /\ n >= 1
         /\ j + n + 1 <= Len(quest)
        THEN SubSeq(quest, j + 1, j + n)
        ELSE None

re_search_suche(quest) ==
  LET hits == {i \in 1..Len(quest) : SucheAt(quest, i) # None}
  IN  IF hits = {} THEN None
      ELSE SucheAt(quest, CHOOSE i \in hits : \A j \in hits : i <= j)

-----------------------------------------------------------------------------
(* answer                                                                  *)

\* sorted(rooms, key=lambda x: normalize(x.get("room_name", ""))): stable
NameKey(r) == normalize(Get(r, "room_name", << >>))

RECURSIVE InsertByName(_, _)
InsertByName(sorted, r) ==
  IF Len(sorted) = 0 THEN <<r>>
  ELSE IF StrLess(NameKey(r), NameKey(Head(sorted))) THEN <<r>> \o sorted
  ELSE <<Head(sorted)>> \o InsertByName(Tail(sorted), r)

RECURSIVE SortByName(_)
SortByName(rooms) ==
  IF Len(rooms) = 0 THEN << >>
  ELSE InsertByName(SortByName(SubSeq(rooms, 1, Len(rooms) - 1)), rooms[Len(rooms)])

\* sorted(counts.keys())
RECURSIVE SortStrings(_)
SortStrings(S) ==
  IF S = {} THEN << >>
  ELSE LET least == CHOOSE a \in S : \A b \in S : ~StrLess(b, a)
       IN  <<least>> \o SortStrings(S \ {least})

HelpText ==
  <<Lit("**Mögliche Abfragen:**\n- 'liste räume'\n- 'ga übersicht' / 'ga in jedem raum'\n- 'ga in raum <name>'\n- 'lüftung|heizen|kühlen|licht|steuerung in raum <name>'\n- 'suche \"text\"'\n- 'id <GlobalId>' / 'details id <GlobalId>' / 'psets id <GlobalId>'\n")>>

ListRooms(idx) ==
  LET rooms == Values(Get(idx, "rooms", << >>))
      sorted == SortByName(rooms)
  IN  IF Len(rooms) = 0 THEN Ok(<<Lit("Es wurden keine IfcSpace-Objekte (Räume) erkannt.")>>)
      ELSE IF \E i \in 1..Len(rooms) : ~({"room_name", "room_id"} \subseteq DOMAIN rooms[i])
        THEN KeyError
      ELSE Ok(Join(NL, << <<Lit("**Erkannte Räume:**")>> >>
                        \o [i \in 1..Len(sorted) |->
                              <<Lit("- "), Val(sorted[i].room_name), Lit(" ("),
                                Val(sorted[i].room_id), Lit(")")>>]))

Count(items, cat) == Cardinality({i \in 1..Len(items) : items[i].category = cat})

OverviewLine(r) ==
  LET items == Get(r, "ga_items", << >>)
      keys == SortStrings({items[i].category : i \in 1..Len(items)})
      parts == IF Len(keys) = 0 THEN <<Lit("keine GA-Objekte erkannt")>>
               ELSE Join(Lit(", "),
                         [i \in 1..Len(keys) |->
                            <<Val(keys[i]), Lit("="), Val(IntStr(Count(items, keys[i])))>>])
  IN  <<Lit("- "), Val(Get(r, "room_name", << >>)), Lit(" : ")>> \o parts

Overview(idx) ==
  LET rooms == Values(Get(idx, "rooms", << >>))
      sorted == SortByName(rooms)
  IN  IF Len(rooms) = 0 THEN Ok(<<Lit("Es wurden keine Räume erkannt.")>>)
      ELSE IF \E i \in 1..Len(rooms) :
                \E j \in 1..Len(Get(rooms[i], "ga_items", << >>)) :
                  "category" \notin DOMAIN Get(rooms[i], "ga_items", << >>)[j]
        THEN KeyError
      ELSE Ok(Join(NL, << <<Lit("**GA-Übersicht je Raum (Anzahl pro Kategorie):**")>> >>
                        \o [i \in 1..Len(sorted) |-> OverviewLine(sorted[i])]))

ElementNotFound(gid) == <<Lit("Kein Element mit GlobalId '"), Val(gid), Lit("' gefunden.")>>

ElementFound(hit, gid) ==
  <<Lit("**Element gefunden:**\n"),
    Lit("- Klasse: "), Val(Get(hit, "ifc_class", << >>)), NL,
    Lit("- Name: "), Val(Get(hit, "name", << >>)), NL,
    Lit("- ObjectType: "), Val(Get(hit, "object_type", << >>)), NL,
    Lit("- PredefinedType: "), Val(Get(hit, "predefined_type", << >>)), NL,
    Lit("- GlobalId: "), Val(gid), NL>>

IdLookup(idx, gid) ==
  LET lookup == Get(idx, "global_lookup", << >>)
      hit == lookup[gid]
  IN  \* if not hit: no such key, or an empty dict
      IF gid \notin DOMAIN lookup \/ DOMAIN hit = {} THEN Ok(ElementNotFound(gid))
      ELSE Ok(ElementFound(hit, gid))

\* The (room, item) pairs in the order of the two nested loops over the index.
RECURSIVE RoomItems(_)
RoomItems(rooms) ==
  IF Len(rooms) = 0 THEN << >>
  ELSE LET items == Get(Head(rooms), "ga_items", << >>)
       IN  [i \in 1..Len(items) |-> [r |-> Head(rooms), it |-> items[i]]]
             \o RoomItems(Tail(rooms))

AllRoomItems(idx) == RoomItems(Values(Get(idx, "rooms", << >>)))

\* The first pair whose item has this global_id: its position, 0 if none
FirstWithId(pairs, gid) ==
  LET hits == {i \in 1..Len(pairs) : Get(pairs[i].it, "global_id", None) = gid}
  IN  IF hits = {} THEN 0 ELSE CHOOSE i \in hits : \A j \in hits : i <= j

NoGaDetails(gid) == <<Lit("Keine GA-Details zu '"), Val(gid), Lit("' gefunden.")>>

GaDetails(r, it, gid) ==
  <<Lit("**Details (GA) - "), Val(gid), Lit(":**\n"),
    Lit("- Raum: "), Val(Get(r, "room_name", << >>)), NL,
    Lit("- Kategorie: "), Val(Get(it, "category", << >>)), NL,
    Lit("- IFC-Klasse: "), Val(Get(it, "ifc_class", << >>)), NL,
    Lit("- Name: "), Val(Get(it, "name", << >>)), NL,
    Lit("- ObjectType: "), Val(Get(it, "object_type", << >>)), NL,
    Lit("- PredefinedType: "), Val(Get(it, "predefined_type", << >>)), NL>>

Details(idx, gid) ==
  LET pairs == AllRoomItems(idx)
      at == FirstWithId(pairs, gid)
  IN  IF at = 0 THEN Ok(NoGaDetails(gid))
      ELSE Ok(GaDetails(pairs[at].r, pairs[at].it, gid))

RECURSIVE PsetLines(_)
PsetLines(psets) ==
  IF Len(psets) = 0 THEN << >>
  ELSE LET props == Take(Head(psets).v, PsetPropLimit)
       IN  << <<Lit("- "), Val(Head(psets).k)>> >>
             \o [i \in 1..Len(props) |-> <<Lit("  - "), Val(props[i].k), Lit(": "), Val(props[i].v)>>]
             \o PsetLines(Tail(psets))

Psets(idx, gid) ==
  LET pairs == AllRoomItems(idx)
      at == FirstWithId(pairs, gid)
      psets == Get(pairs[at].it, "psets", << >>)
  IN  IF at = 0 THEN Ok(<<Lit("Keine PropertySets zu '"), Val(gid), Lit("' gefunden.")>>)
      ELSE IF Len(psets) = 0
        THEN Ok(<<Lit("Für '"), Val(gid), Lit("' wurden keine PropertySets gefunden.")>>)
      ELSE Ok(Join(NL, << <<Lit("**PropertySets - "), Val(gid), Lit(":**")>> >> \o PsetLines(psets)))

Hay(it) ==
  normalize(Get(it, "name", << >>)) \o <<" ">> \o normalize(Get(it, "object_type", << >>))
    \o <<" ">> \o normalize(Get(it, "predefined_type", << >>))
    \o <<" ">> \o normalize(Get(it, "ifc_class", << >>))

Search(idx, needle_raw) ==
  LET needle == normalize(needle_raw)
      hits == SelectSeq(AllRoomItems(idx), LAMBDA p : Contains(needle, Hay(p.it)))
      shown == Take(hits, SearchHitLimit)
  IN  IF ~Truthy(needle) THEN Ok(<<Lit("Bitte einen Suchbegriff angeben, z. B. 'suche \"VAV\"'.")>>)
      ELSE IF Len(hits) = 0
        THEN Ok(<<Lit("Keine Treffer für \""), Val(needle_raw), Lit("\" gefunden.")>>)
      ELSE IF \E i \in 1..Len(shown) : ~ItemKeysOk(shown[i].it) THEN KeyError
      ELSE Ok(Join(NL, << <<Lit("**Treffer für \""), Val(needle_raw), Lit("\":**")>> >>
                        \o [i \in 1..Len(shown) |->
                              <<Lit("- Raum: "), Val(Get(shown[i].r, "room_name", << >>)),
                                Lit(" | ["), Val(shown[i].it.category), Lit("] "),
                                Val(shown[i].it.ifc_class), Lit(" | "),
                                Val(Get(shown[i].it, "name", << >>)), Lit(" | "),
                                Val(Get(shown[i].it, "global_id", << >>))>>]))

RoomNotRecognized ==
  <<Lit("Der Raum konnte nicht eindeutig erkannt werden. Bitte exakten Raumnamen verwenden oder 'liste räume'.")>>

Categories == <<<<"l", "ü", "f", "t", "u", "n", "g">>, <<"h", "e", "i", "z", "e", "n">>, <<"k", "ü", "h", "l", "e", "n">>, <<"l", "i", "c", "h", "t">>, <<"s", "t", "e", "u", "e", "r", "u", "n", "g">>>>

CategoryInRoom(q, idx, cat) ==
  LET rid == best_room_match(q, idx)
      r == Item(idx.rooms, rid)
      items == SelectSeq(Get(r, "ga_items", << >>), LAMBDA it : Get(it, "category", None) = cat)
      body == format_ga_items(items, FALSE)
  IN  IF ~Truthy(rid) THEN Ok(RoomNotRecognized)
      ELSE IF body.raised THEN KeyError
      ELSE Ok(<<Lit("**"), Val(Capitalize(cat)), Lit(" - Raum \""),
                Val(Get(r, "room_name", << >>)), Lit("\":**\n")>> \o body.text)

GaInRoom(q, idx) ==
  LET rid == best_room_match(q, idx)
      r == Item(idx.rooms, rid)
      body == format_ga_items(Get(r, "ga_items", << >>), FALSE)
  IN  IF ~Truthy(rid) THEN Ok(RoomNotRecognized)
      ELSE IF body.raised THEN KeyError
      ELSE Ok(<<Lit("**GA-relevante Objekte - Raum \""),
                Val(Get(r, "room_name", << >>)), Lit("\":**\n")>> \o body.text)

Unparsed ==
  <<Lit("Ich kann die Frage noch nicht eindeutig zuordnen.\nNutzen Sie 'hilfe' für Beispiele.")>>

\* The number of the rule that answers the question (1..10).
Rule(quest) ==
  LET q == normalize(quest)
  IN  IF q \in {<<"h", "i", "l", "f", "e">>, <<"h", "e", "l", "p">>, <<"?">>} THEN 1
      ELSE IF Contains(<<"l", "i", "s", "t", "e", " ", "r", "ä", "u", "m", "e">>, q) \/ Contains(<<"r", "ä", "u", "m", "e", " ", "a", "u", "f", "l", "i", "s", "t", "e", "n">>, q) THEN 2
      ELSE IF Contains(<<"g", "a", " ", "ü", "b", "e", "r", "s", "i", "c", "h", "t">>, q) \/ Contains(<<"g", "a", " ", "i", "n", " ", "j", "e", "d", "e", "m", " ", "r", "a", "u", "m">>, q)
                \/ Contains(<<"i", "n", " ", "j", "e", "d", "e", "m", " ", "r", "a", "u", "m">>, q) THEN 3
      ELSE IF /\ re_search_id(q, << <<<<"i", "d">>>>, <<<<"g", "l", "o", "b", "a", "l", "i", "d">>>> >>) # None
              /\ ~Contains(<<"d", "e", "t", "a", "i", "l", "s">>, q) /\ ~Contains(<<"p", "s", "e", "t", "s">>, q) THEN 4
      ELSE IF re_search_id(q, << <<<<"d", "e", "t", "a", "i", "l", "s">>, <<"i", "d">>>> >>) # None THEN 5
      ELSE IF re_search_id(q, << <<<<"p", "s", "e", "t", "s">>, <<"i", "d">>>> >>) # None THEN 6
      ELSE IF re_search_suche(quest) # None THEN 7
      ELSE IF \E i \in 1..Len(Categories) : Contains(Categories[i], q) /\ Contains(<<"r", "a", "u", "m">>, q)
        THEN 8
      ELSE IF Contains(<<"g", "a">>, q) /\ Contains(<<"r", "a", "u", "m">>, q) THEN 9
      ELSE 10

answer(quest, idx) ==
  LET q == normalize(quest)
      rule == Rule(quest)
  IN  CASE rule = 1 -> Ok(HelpText)
        [] rule = 2 -> ListRooms(idx)
        [] rule = 3 -> Overview(idx)
        [] rule = 4 -> IdLookup(idx, re_search_id(q, << <<<<"i", "d">>>>, <<<<"g", "l", "o", "b", "a", "l", "i", "d">>>> >>))
        [] rule = 5 -> Details(idx, re_search_id(q, << <<<<"d", "e", "t", "a", "i", "l", "s">>, <<"i", "d">>>> >>))
        [] rule = 6 -> Psets(idx, re_search_id(q, << <<<<"p", "s", "e", "t", "s">>, <<"i", "d">>>> >>))
        [] rule = 7 -> Search(idx, re_search_suche(quest))
        [] rule = 8 -> CategoryInRoom(q, idx,
                         Categories[CHOOSE i \in 1..Len(Categories) :
                                      /\ Contains(Categories[i], q)
                                      /\ \A j \in 1..(i - 1) : ~Contains(Categories[j], q)])
        [] rule = 9 -> GaInRoom(q, idx)
        [] OTHER -> Ok(Unparsed)

-----------------------------------------------------------------------------
(* The models and questions the checks draw from.                          *)

Element(gid, cls, name, rels, raises) ==
  [GlobalId |-> gid, cls |-> cls, Name |-> name, ObjectType |-> None,
   PredefinedType |-> None, IsDefinedBy |-> rels, raises |-> raises]

Space(gid, name, long) ==
  [GlobalId |-> gid, cls |-> <<"I", "f", "c", "S", "p", "a", "c", "e">>, Name |-> name, LongName |-> long]

Prop(cls, name, value) == [cls |-> cls, Name |-> name, NominalValue |-> value]

PsetRel(relcls, pdefcls, name, props) ==
  [cls |-> relcls, pdef |-> [cls |-> pdefcls, Name |-> name, HasProperties |-> props]]

\* Elements of the index checks: the same GlobalId on an unclassified and on
\* a classified record, a classified element without GlobalId, and elements
\* whose attribute access raises.
WallX == Element(<<"w", "a", "l", "l", "$", "1">>, <<"I", "f", "c", "W", "a", "l", "l">>, <<"W", "a", "n", "d">>, << >>, "none")
FanX == Element(<<"w", "a", "l", "l", "$", "1">>, <<"I", "f", "c", "F", "a", "n">>, <<"V", "e", "n", "t", "i", "l", "a", "t", "o", "r">>, << >>, "none")
LampNoId == Element(None, <<"I", "f", "c", "L", "a", "m", "p">>, <<"L", "e", "u", "c", "h", "t", "e">>, << >>, "none")
FanBadPsets == Element(<<"f", "a", "n", "_", "0", "3">>, <<"I", "f", "c", "F", "a", "n">>, <<"V", "A", "V", " ", "B", "o", "x">>, << >>, "IsDefinedBy")
ProxyBadClass == Element(<<"p", "r", "o", "x", "y", "4">>, <<"I", "f", "c", "B", "u", "i", "l", "d", "i", "n", "g", "E", "l", "e", "m", "e", "n", "t", "P", "r", "o", "x", "y">>, None, << >>, "is_a")

IndexElements == {WallX, FanX, LampNoId, FanBadPsets, ProxyBadClass}

\* Elements of the query checks.
WallUpper == Element(<<"W", "a", "l", "l", "0", "2">>, <<"I", "f", "c", "W", "a", "l", "l">>, <<"W", "a", "n", "d", " ", "N", "o", "r", "d">>, << >>, "none")
FanAir ==
  Element(<<"f", "a", "n", "_", "0", "3">>, <<"I", "f", "c", "F", "a", "n">>, <<"V", "A", "V", " ", "B", "o", "x">>,
          << PsetRel("IfcRelDefinesByProperties", "IfcPropertySet", <<"P", "s", "e", "t", "_", "A", "i", "r">>,
                     << Prop("IfcPropertySingleValue", <<"F", "l", "o", "w">>, <<"1", "2", "0">>),
                        Prop("IfcPropertyEnumeratedValue", <<"M", "o", "d", "e">>, None),
                        Prop("IfcPropertySingleValue", <<"N", "o", "t", "e">>, None) >>),
             PsetRel("IfcRelDefinesByType", "IfcPropertySet", <<"P", "s", "e", "t", "_", "T", "y", "p", "e">>, << >>),
             PsetRel("IfcRelDefinesByProperties", "IfcElementQuantity", <<"Q", "t", "o", "_", "F", "a", "n">>, << >>),
             PsetRel("IfcRelDefinesByProperties", "IfcPropertySet", None, << >>) >>,
          "none")
Sensor5 == Element(<<"s", "e", "n", "s", "0", "5">>, <<"I", "f", "c", "S", "e", "n", "s", "o", "r">>, <<"F", "ü", "h", "l", "e", "r">>, << >>, "none")

QueryElements == {WallX, WallUpper, FanAir, LampNoId, Sensor5}

Office1 == Space(<<"r", "1">>, <<"O", "f", "f", "i", "c", "e", " ", "1">>, None)
Office101 == Space(<<"r", "2">>, <<"O", "f", "f", "i", "c", "e", " ", "1", ".", "0", "1">>, << >>)
RaumA == Space(<<"r", "1">>, None, <<"R", "a", "u", "m", " ", "A">>)
RaumB == Space(<<"r", "2">>, <<"R", "a", "u", "m", " ", "B">>, None)
NoIdSpace == Space(None, <<"F", "l", "u", "r">>, None)

QueryRooms == {Office1, Office101, RaumA, RaumB}
IndexRooms == {Office1, Office101, RaumA, NoIdSpace}

Storey == [GlobalId |-> <<"r", "1">>, cls |-> <<"I", "f", "c", "B", "u", "i", "l", "d", "i", "n", "g", "S", "t", "o", "r", "e", "y">>, Name |-> <<"E", "G">>, LongName |-> None]

Questions ==
  << <<" ", "H", "e", "l", "p", " ">>,
     <<"l", "i", "s", "t", "e", " ", "r", "ä", "u", "m", "e">>,
     <<"G", "A", " ", "i", "n", " ", "j", "e", "d", "e", "m", " ", "R", "a", "u", "m">>,
     <<"i", "d", " ", "w", "a", "l", "l", "$", "1">>,
     <<"i", "d", " ", "W", "a", "l", "l", "0", "2">>,
     <<"d", "e", "t", "a", "i", "l", "s", " ", "i", "d", " ", "w", "a", "l", "l", "$", "1">>,
     <<"d", "e", "t", "a", "i", "l", "s", " ", "i", "d", " ", "W", "a", "l", "l", "0", "2">>,
     <<"d", "e", "t", "a", "i", "l", "s", " ", "i", "d", " ", "f", "a", "n", "_", "0", "3">>,
     <<"p", "s", "e", "t", "s", " ", "i", "d", " ", "f", "a", "n", "_", "0", "3">>,
     <<"p", "s", "e", "t", "s", " ", "i", "d", " ", "s", "e", "n", "s", "0", "5">>,
     <<"p", "s", "e", "t", "s", " ", "i", "d", " ", "w", "a", "l", "l", "$", "1">>,
     <<"s", "u", "c", "h", "e", " ", "\"", "v", "a", "v", "\"">>,
     <<"S", "u", "c", "h", "e", " ", " ", "\"", "L", "e", "u", "c", "h", "t", "e", "\"">>,
     <<"s", "u", "c", "h", "e", " ", "\"", " ", "\"">>,
     <<"l", "ü", "f", "t", "u", "n", "g", " ", "i", "n", " ", "r", "a", "u", "m", " ", "o", "f", "f", "i", "c", "e", " ", "1", ".", "0", "1">>,
     <<"l", "i", "c", "h", "t", " ", "i", "n", " ", "r", "a", "u", "m", " ", "a", " ", "o", "d", "e", "r", " ", "r", "a", "u", "m", " ", "b">>,
     <<"g", "a", " ", "i", "n", " ", "r", "a", "u", "m", " ", "a", " ", "o", "d", "e", "r", " ", "r", "a", "u", "m", " ", "b">>,
     <<"G", "A", " ", " ", "i", "m", " ", "R", "a", "u", "m", " ", "O", "f", "f", "i", "c", "e", " ", "1", ".", "0", "1">>,
     <<"g", "a", " ", "i", "n", " ", "r", "a", "u", "m", " ", "k", "e", "l", "l", "e", "r">>,
     <<"w", "a", "s", " ", "i", "s", "t", " ", "d", "a", "s">> >>

\* The sequences without repetition of at most n members of S.
ListsOf(S, n) ==
  UNION {{f \in [1..k -> S] : \A i, j \in 1..k : f[i] = f[j] => i = j} : k \in 0..n}

\* One relationship record per edge: container -> one related element.
Rel(container, e) == [RelatingStructure |-> container, RelatedElements |-> <<e>>]

\* The containers a relationship record of the model can name: its spaces,
\* and a storey.
Edges(spaces, elements) ==
  {Rel(spaces[i], e) : i \in 1..Len(spaces), e \in elements} \cup {Rel(Storey, FanX)}

NoIndex == [rooms |-> << >>, global_lookup |-> EmptyLookup]
NoResponse == [raised |-> FALSE, text |-> << >>]
NoGeom == [IFC_GEOM_OK |-> FALSE, classes |-> << >>]
NoFig == [annotations |-> << >>, data |-> << >>, calls |-> << >>, scene |-> << >>, height |-> 0]

Model(spaces, contained, referenced) ==
  [spaces |-> spaces, contained |-> contained, referenced |-> referenced]

-----------------------------------------------------------------------------
(* The index builder and the chat loop.                                    *)

\* The first message of the chat.
InitialChat ==
  <<[role |-> "assistant",
     content |-> <<Lit("Geben Sie 'hilfe' ein, um mögliche Abfragen zu sehen.")>>]>>

\* st.session_state.chat once the chat column has been shown: the first
\* message is set when the session has no chat yet.
ChatShown == IF chat = << >> THEN InitialChat ELSE chat

\* ... after the question was appended,
ChatAsked(q) == Append(ChatShown, [role |-> "user", content |-> <<Val(q)>>])

\* ... and after the response was: answer raising leaves the run before.
ChatAnswered(q, resp) ==
  IF resp.raised THEN ChatAsked(q)
  ELSE Append(ChatAsked(q), [role |-> "assistant", content |-> resp.text])

\* The questions the chat holds.
AskedCount == Cardinality({i \in 1..Len(chat) : chat[i].role = "user"})

\* The session before its first run.
InitNoSession ==
  /\ chat = << >>
  /\ builds = 0
  /\ runs = 0

InitRest ==
  /\ InitNoSession
  /\ index = NoIndex
  /\ merged = << >>
  /\ question = << >>
  /\ response = NoResponse
  /\ pc = "opened"
  /\ geom = NoGeom
  /\ fig = NoFig
  /\ gpc = "idle"

\* The viewer alone: no model is indexed and no question asked.
InitNoChat ==
  /\ InitNoSession
  /\ ifc = Model(<< >>, << >>, << >>)
  /\ index = NoIndex
  /\ merged = << >>
  /\ question = << >>
  /\ response = NoResponse
  /\ pc = "idle"

\* Models of the index checks: at most MaxRooms spaces and MaxEdges
\* containment and reference records together.
InitIndex ==
  /\ \E spaces \in ListsOf(IndexRooms, MaxRooms) :
       \E nc \in 0..MaxEdges :
         \E nr \in 0..(MaxEdges - nc) :
           \E contained \in [1..nc -> Edges(spaces, IndexElements)] :
             \E referenced \in [1..nr -> Edges(spaces, IndexElements)] :
               ifc = Model(spaces, contained, referenced)
  /\ InitRest

\* Models of the query checks: at most QMaxRooms spaces and QMaxEdges
\* containment records.
Init ==
  /\ \E spaces \in ListsOf(QueryRooms, QMaxRooms) :
       \E nc \in 0..QMaxEdges :
         \E contained \in [1..nc -> Edges(spaces, QueryElements)] :
           ifc = Model(spaces, contained, << >>)
  /\ InitRest

\* index = build_room_index(ifc)
Build ==
  /\ pc = "opened"
  /\ index' = build_room_index(ifc)
  /\ merged' = MergedOf(ifc)
  /\ pc' = "built"
  /\ UNCHANGED <<ifc, question, response, geom, fig, gpc, chat, builds, runs>>

\* response = answer(user_q, index)
Answer ==
  /\ pc = "built"
  /\ AskedCount < MaxAsked
  /\ \E i \in 1..Len(Questions) :
       /\ question' = Questions[i]
       /\ response' = answer(Questions[i], index)
  /\ chat' = ChatAnswered(question', response')
  /\ pc' = IF response'.raised THEN "idle" ELSE "answered"
  /\ UNCHANGED <<ifc, index, merged, geom, fig, gpc, builds, runs>>

\* st.rerun(): the script runs again from the top, with the same model.
Rerun ==
  /\ pc = "answered"
  /\ pc' = "opened"
  /\ index' = NoIndex
  /\ merged' = << >>
  /\ question' = << >>
  /\ response' = NoResponse
  /\ UNCHANGED <<ifc, geom, fig, gpc, chat, builds, runs>>

NextIndex == Build

Next == Build \/ Answer \/ Rerun

SpecIndex == InitIndex /\ [][NextIndex]_vars

Spec == Init /\ [][Next]_vars

-----------------------------------------------------------------------------
(* Properties of the index builder (SpecIndex).                            *)

Built == pc \in {"built", "answered"}

Rooms == Values(index.rooms)

\* The non-empty identifiers of a room's classified items.
ItemIds(r) == {r.ga_items[i].global_id : i \in 1..Len(r.ga_items)} \ {<< >>}

\* The elements related to the room rid by a containment or a reference record.
Candidates(rid) == ElementsOf(ifc.contained, rid) \o ElementsOf(ifc.referenced, rid)

\* C1 as stated: no element identifier occurs in the ga_items of more than
\* one zone, i.e. every classified item is listed under exactly one zone.
C1_OneZonePerItem ==
  Built => \A i, j \in 1..Len(Rooms) : i # j => ItemIds(Rooms[i]) \cap ItemIds(Rooms[j]) = {}

\* C1 amended: within one zone's ga_items every non-empty identifier occurs
\* once, and it is the identifier of a classified element related to that
\* zone; an element related to two zones is listed under both.
C1_OncePerZone ==
  Built =>
    \A n \in 1..Len(Rooms) :
      LET r == Rooms[n]
          cands == Candidates(r.room_id)
          listed == {cands[k].GlobalId : k \in {k \in 1..Len(cands) :
                       /\ Truthy(cands[k].GlobalId)
                       /\ classify_ga(cands[k]) # None
                       /\ cands[k].raises = "none"}}
      IN  /\ \A i, j \in 1..Len(r.ga_items) :
               (r.ga_items[i].global_id = r.ga_items[j].global_id
                  /\ Truthy(r.ga_items[i].global_id)) => i = j
          /\ ItemIds(r) \subseteq listed

\* C1 witness: the build listed one identifier under two zones.
C1_Witness ==
  /\ pc = "built"
  /\ \E i, j \in 1..Len(Rooms) : i # j /\ ItemIds(Rooms[i]) \cap ItemIds(Rooms[j]) # {}

\* C2 as stated: the identifier of every classified item, an empty one
\* included, is a key of global_lookup.
C2_EveryItemInLookup ==
  Built =>
    \A n \in 1..Len(Rooms) : \A i \in 1..Len(Rooms[n].ga_items) :
      Rooms[n].ga_items[i].global_id \in DOMAIN index.global_lookup

\* C2 amended: every classified item with a non-empty identifier has that
\* identifier as a key of global_lookup.
C2_IdentifiedItemInLookup ==
  Built =>
    \A n \in 1..Len(Rooms) : \A i \in 1..Len(Rooms[n].ga_items) :
      Truthy(Rooms[n].ga_items[i].global_id)
        => Rooms[n].ga_items[i].global_id \in DOMAIN index.global_lookup

\* C2 witness: the build listed a classified item with an identifier and
\* one without.
C2_Witness ==
  /\ pc = "built"
  /\ \E n \in 1..Len(Rooms) : \E i \in 1..Len(Rooms[n].ga_items) :
       Truthy(Rooms[n].ga_items[i].global_id)
  /\ \E n \in 1..Len(Rooms) : \E i \in 1..Len(Rooms[n].ga_items) :
       ~Truthy(Rooms[n].ga_items[i].global_id)

\* The elements whose summary the build writes, in walk order: room by
\* room, the merged sequence without the elements whose class cannot be read.
RECURSIVE WalkOrder(_)
WalkOrder(m) ==
  IF Len(m) = 0 THEN << >>
  ELSE SelectSeq(Head(m).v, LAMBDA e : e.raises # "is_a" /\ Truthy(e.GlobalId))
         \o WalkOrder(Tail(m))

Occurrences(gid) == {k \in 1..Len(WalkOrder(merged)) : WalkOrder(merged)[k].GlobalId = gid}

\* C3 as stated: global_lookup keeps the summary of the first occurrence of
\* an identifier in walk order.
C3_FirstWriteWins ==
  Built =>
    \A gid \in DOMAIN index.global_lookup :
      \E k \in Occurrences(gid) :
        /\ \A l \in Occurrences(gid) : k <= l
        /\ index.global_lookup[gid] = Meta(WalkOrder(merged)[k])

\* What the code does instead: global_lookup holds
\* exactly the identifiers visited, each with the summary of its last
\* occurrence in walk order (a later zone overwrites the summary written
\* under an earlier one).
C3_LastWriteWins ==
  Built =>
    /\ DOMAIN index.global_lookup =
         {WalkOrder(merged)[k].GlobalId : k \in 1..Len(WalkOrder(merged))}
    /\ \A gid \in DOMAIN index.global_lookup :
         \E k \in Occurrences(gid) :
           /\ \A l \in Occurrences(gid) : l <= k
           /\ index.global_lookup[gid] = Meta(WalkOrder(merged)[k])

\* The case of the two policies differing: an identifier was visited twice
\* with different summaries.
C3_Witness ==
  /\ pc = "built"
  /\ \E gid \in DOMAIN index.global_lookup :
       \E k, l \in Occurrences(gid) :
         k < l /\ Meta(WalkOrder(merged)[k]) # Meta(WalkOrder(merged)[l])

\* The positions of cands that a merge by first occurrence keeps.
Kept(cands) ==
  {k \in 1..Len(cands) :
     ~Truthy(safe_str(cands[k].GlobalId))
       \/ \A l \in 1..(k - 1) : safe_str(cands[l].GlobalId) # safe_str(cands[k].GlobalId)}

\* C4: the merged sequence of every zone is its containment candidates
\* followed by its reference candidates with, for every non-empty
\* identifier, only the first occurrence kept and the order preserved;
\* every candidate without identifier is kept.
C4_MergeKeepsFirst ==
  Built =>
    \A n \in 1..Len(merged) :
      LET cands == Candidates(merged[n].k)
          uniq == merged[n].v
      IN  /\ Len(uniq) = Cardinality(Kept(cands))
          /\ \A k \in Kept(cands) :
               uniq[Cardinality({l \in Kept(cands) : l <= k})] = cands[k]
          /\ \A i, j \in 1..Len(uniq) :
               (Truthy(safe_str(uniq[i].GlobalId))
                  /\ safe_str(uniq[i].GlobalId) = safe_str(uniq[j].GlobalId)) => i = j

\* C4 witness: one zone got the same element through a containment and a
\* reference record and merged them into one entry.
C4_Witness ==
  /\ pc = "built"
  /\ \E n \in 1..Len(merged) :
       /\ \E e \in Range(ElementsOf(ifc.contained, merged[n].k)) :
            /\ e \in Range(ElementsOf(ifc.referenced, merged[n].k))
            /\ Truthy(e.GlobalId)
       /\ Len(merged[n].v) = 1

-----------------------------------------------------------------------------
(* Properties of the query engine (Spec).                                  *)

\* gid is a key of global_lookup, its element has no category and no
\* classified item carries it.
UnclassifiedKey(gid) ==
  /\ gid \in DOMAIN index.global_lookup
  /\ classify_ga([cls |-> index.global_lookup[gid].ifc_class]) = None
  /\ \A n \in 1..Len(Rooms) : gid \notin ItemIds(Rooms[n])

\* 6+ characters from [0-9a-zA-Z_$]
IsIdentifier(gid) == Len(gid) >= MinIdLen /\ \A i \in 1..Len(gid) : IsIdChar(gid[i])

IsNoGaDetails(resp) ==
  /\ ~resp.raised
  /\ Len(resp.text) = 3
  /\ resp.text[1] = Lit("Keine GA-Details zu '")
  /\ resp.text[3] = Lit("' gefunden.")

\* C5: for every identifier that is a key of global_lookup and belongs to
\* an unclassified element, "details id <id>" is answered with the 'no GA
\* details' message and "id <id>" with the element's summary from
\* global_lookup.
C5_DetailsVsId ==
  pc = "answered" =>
    \A gid \in DOMAIN index.global_lookup :
      (UnclassifiedKey(gid) /\ IsIdentifier(gid)) =>
        /\ question = <<"d", "e", "t", "a", "i", "l", "s", " ", "i", "d", " ">> \o gid => IsNoGaDetails(response)
        /\ question = <<"i", "d", " ">> \o gid
             => response = Ok(ElementFound(index.global_lookup[gid], gid))

\* The lengths of the room's normalized names that occur in q.
MatchLens(r, q) ==
  {Len(c) : c \in {c \in {normalize(r.room_name), normalize(r.room_longname)} :
                     Truthy(c) /\ Contains(c, q)}}

\* The length of the room's longest name that occurs in q, 0 if none does.
BestLen(r, q) ==
  IF MatchLens(r, q) = {} THEN 0
  ELSE CHOOSE l \in MatchLens(r, q) : \A m \in MatchLens(r, q) : m <= l

TopLen(q) ==
  LET lens == {BestLen(Rooms[n], q) : n \in 1..Len(Rooms)} \cup {0}
  IN  CHOOSE l \in lens : \A m \in lens : m <= l

\* C6: best_room_match returns the zone with the longest (non-empty)
\* normalized name occurring in the normalized question, the first such
\* zone in enumeration order on a tie, and None exactly when no zone name
\* occurs; with zones "Office 1" and "Office 1.01" a question containing
\* "office 1.01" resolves to "Office 1.01".
C6_LongestNameFirstZone ==
  pc = "answered" =>
    LET q == normalize(question)
        got == best_room_match(question, index)
    IN  /\ TopLen(q) = 0 => got = None
        /\ TopLen(q) > 0 =>
             \E n \in 1..Len(Rooms) :
               /\ BestLen(Rooms[n], q) = TopLen(q)
               /\ \A m \in 1..(n - 1) : BestLen(Rooms[m], q) < TopLen(q)
               /\ got = Rooms[n].room_id
        /\ ({Rooms[n].room_name : n \in 1..Len(Rooms)} = {<<"O", "f", "f", "i", "c", "e", " ", "1">>, <<"O", "f", "f", "i", "c", "e", " ", "1", ".", "0", "1">>}
              /\ Contains(<<"o", "f", "f", "i", "c", "e", " ", "1", ".", "0", "1">>, q))
             => \E n \in 1..Len(Rooms) :
                  Rooms[n].room_name = <<"O", "f", "f", "i", "c", "e", " ", "1", ".", "0", "1">> /\ got = Rooms[n].room_id

\* C6 witness: "Office 1" is enumerated before "Office 1.01", both occur in
\* the question of a zone query, and the longer name won.
C6_Witness ==
  /\ pc = "answered"
  /\ Rule(question) \in {8, 9}
  /\ Len(Rooms) = 2
  /\ Rooms[1].room_name = <<"O", "f", "f", "i", "c", "e", " ", "1">> /\ Rooms[2].room_name = <<"O", "f", "f", "i", "c", "e", " ", "1", ".", "0", "1">>
  /\ Contains(<<"o", "f", "f", "i", "c", "e", " ", "1", ".", "0", "1">>, normalize(question))
  /\ best_room_match(question, index) = Rooms[2].room_id
  /\ response.text[4] = Val(<<"O", "f", "f", "i", "c", "e", " ", "1", ".", "0", "1">>)

\* Two different zones have names of the same length in the question, and
\* no longer zone name occurs in it.
Ambiguous(q) ==
  \E n, m \in 1..Len(Rooms) :
    n # m /\ BestLen(Rooms[n], q) = TopLen(q) /\ BestLen(Rooms[m], q) = TopLen(q)
      /\ TopLen(q) > 0

\* C7: a category-in-zone or GA-in-zone query whose zone is ambiguous
\* between two equally long zone names is answered with the
\* zone-not-uniquely-recognized message.
C7_AmbiguityReported ==
  (pc = "answered" /\ Rule(question) \in {8, 9} /\ Ambiguous(normalize(question)))
    => response = Ok(RoomNotRecognized)

NonEmptyText(text) ==
  \E i \in 1..Len(text) : text[i].lit # "" \/ Len(text[i].val) > 0

\* C8: answer never raises, returns a non-empty text in every branch, and
\* leaves the index as build_room_index made it.
C8_AnswerAlwaysText ==
  Truthy(question) =>
    /\ ~response.raised
    /\ NonEmptyText(response.text)
    /\ index = build_room_index(ifc)

\* C8 witness: a search without hits over an index whose rooms hold a
\* classified item without identifier and without property sets.
C8_Witness ==
  /\ pc = "answered"
  /\ Rule(question) = 7
  /\ response.text[1] = Lit("Keine Treffer für \"")
  /\ \E n \in 1..Len(Rooms) : \E i \in 1..Len(Rooms[n].ga_items) :
       /\ ~Truthy(Rooms[n].ga_items[i].global_id)
       /\ Len(Rooms[n].ga_items[i].psets) = 0

-----------------------------------------------------------------------------
(* plot_ifc_mesh_basic                                                     *)

max_elems_per_class == 1200
Sentinel == 1000000000
PadPercent == 5
FigHeight == 520
OpacitySpace == 30
OpacityOther == 18

\* ifcgeom.create_shape(settings, e) on the i-th element of a class: it
\* raises for every fail_every-th element (never if fail_every = 0).
ShapeOk(c, i) == c.fail_every = 0 \/ i % c.fail_every # 0

\* The i-th element's vertices span [i, i + 1] on every axis.
VertMin(i) == i
VertMax(i) == i + 1

Min2(a, b) == IF a < b THEN a ELSE b
Max2(a, b) == IF a > b THEN a ELSE b

\* The first n elements of the class without any cap.
Attempted_NoCap(c) == IF c.by_type_raises THEN 0 ELSE c.n

\* elems[:max_elems_per_class]: how many elements of the class are tried
\* (none if ifc.by_type raises).
Attempted(c) == IF c.by_type_raises THEN 0 ELSE Min2(c.n, max_elems_per_class)

\* The indexes of the elements of the class that became a Mesh3d trace.
Rendered(c) == {i \in 1..Attempted(c) : ShapeOk(c, i)}

\* The loop over one class: acc = [mins, maxs, data, calls].  The traces a
\* class adds are kept as one run [name, opacity, meshes].
PlotClass(acc, c) ==
  LET done == Rendered(c)
      first == CHOOSE i \in done : \A j \in 1..(i - 1) : ~ShapeOk(c, j)
      last == CHOOSE i \in done : \A j \in (i + 1)..Attempted(c) : ~ShapeOk(c, j)
      lo == IF done = {} THEN acc.mins ELSE Min2(acc.mins, VertMin(first))
      hi == IF done = {} THEN acc.maxs ELSE Max2(acc.maxs, VertMax(last))
      run == [name |-> c.cls,
              opacity |-> IF c.cls # <<"I", "f", "c", "S", "p", "a", "c", "e">> THEN OpacityOther ELSE OpacitySpace,
              meshes |-> Cardinality(done)]
  IN  [mins |-> lo, maxs |-> hi,
       data |-> IF done = {} THEN acc.data ELSE Append(acc.data, run),
       calls |-> Append(acc.calls, Attempted(c))]

RECURSIVE PlotClasses(_, _)
PlotClasses(acc, classes) ==
  IF Len(classes) = 0 THEN acc
  ELSE PlotClasses(PlotClass(acc, Head(classes)), Tail(classes))

\* np.isfinite: every float the function computes is finite, the two
\* sentinels included.
IsFinite(x) == x \in (0 - Sentinel)..Sentinel

plot_ifc_mesh_basic(g) ==
  LET acc == PlotClasses([mins |-> Sentinel, maxs |-> 0 - Sentinel,
                          data |-> << >>, calls |-> << >>], g.classes)
      L == IF acc.maxs - acc.mins <= 0 THEN 1 ELSE acc.maxs - acc.mins
  IN  IF ~g.IFC_GEOM_OK
        THEN [annotations |->
                <<Lit("3D-Viewer ist in dieser Umgebung nicht verfügbar (ifcopenshell.geom fehlt).")>>,
              data |-> << >>, calls |-> << >>, scene |-> << >>, height |-> FigHeight]
      ELSE IF IsFinite(acc.mins) /\ IsFinite(acc.maxs)
        THEN [annotations |-> << >>, data |-> acc.data, calls |-> acc.calls,
              scene |-> <<[range_from |-> acc.mins, range_to |-> acc.maxs,
                           extent |-> L, pad_percent |-> PadPercent]>>,
              height |-> FigHeight]
      ELSE [annotations |-> << >>, data |-> acc.data, calls |-> acc.calls,
            scene |-> << >>, height |-> FigHeight]

\* The default of the parameter classes; a call asks for a prefix of it.
DefaultClasses == <<<<"I", "f", "c", "S", "p", "a", "c", "e">>, <<"I", "f", "c", "W", "a", "l", "l">>, <<"I", "f", "c", "S", "l", "a", "b">>, <<"I", "f", "c", "D", "o", "o", "r">>, <<"I", "f", "c", "W", "i", "n", "d", "o", "w">>>>

\* What the model holds of one class: by_type raises, or it returns n
\* elements of which every fail_every-th has no shape.
ClassInputs(cls) ==
  {[cls |-> cls, by_type_raises |-> TRUE, n |-> 0, fail_every |-> 0]}
    \cup [cls : {cls}, by_type_raises : {FALSE},
          n : {0, SmallCount, max_elems_per_class + 1}, fail_every : {0, 1, 2}]

InitGeom ==
  /\ InitNoChat
  /\ \E ok \in BOOLEAN :
       \E k \in 0..Min2(MaxClasses, Len(DefaultClasses)) :
         \E classes \in [1..k -> UNION {ClassInputs(DefaultClasses[i]) : i \in 1..k}] :
           /\ \A i \in 1..k : classes[i].cls = DefaultClasses[i]
           /\ geom = [IFC_GEOM_OK |-> ok, classes |-> classes]
  /\ fig = NoFig
  /\ gpc = "ready"

\* fig = plot_ifc_mesh_basic(ifc)
Plot ==
  /\ gpc = "ready"
  /\ fig' = plot_ifc_mesh_basic(geom)
  /\ gpc' = "plotted"
  /\ UNCHANGED <<ifc, index, merged, question, response, pc, geom, chat, builds, runs>>

NextGeom == Plot

SpecGeom == InitGeom /\ [][NextGeom]_vars

-----------------------------------------------------------------------------
(* Properties of the viewer (SpecGeom).                                    *)

RECURSIVE SumMeshes(_)
SumMeshes(data) == IF Len(data) = 0 THEN 0 ELSE Head(data).meshes + SumMeshes(Tail(data))

\* The number of meshes of the figure.
RenderedCount == SumMeshes(fig.data)

\* C9 as stated, on its example: with three types of 20 elements each, a
\* total cap of 10 and a cap of 4 per class, at most 10 meshes are rendered,
\* no type contributes more than 4 and no extraction is attempted beyond
\* the total cap.
C9_BothBudgets ==
  (/\ gpc = "plotted"
   /\ geom.IFC_GEOM_OK
   /\ Len(geom.classes) = 3
   /\ \A i \in 1..3 : geom.classes[i].n = SmallCount /\ ~geom.classes[i].by_type_raises)
    => /\ RenderedCount <= 10
       /\ \A i \in 1..Len(fig.data) : fig.data[i].meshes <= 4
       /\ \A i \in 1..Len(fig.calls) : fig.calls[i] <= 10

\* What the code does instead: the only budget is max_elems_per_class per
\* requested type:
\* of every type at most the first 1200 elements are tried, so no type
\* contributes more than 1200 meshes and the figure holds at most 1200
\* meshes per requested type; there is no total cap.
C9_PerClassCapOnly ==
  gpc = "plotted" =>
    /\ Len(fig.calls) <= Len(geom.classes)
    /\ \A i \in 1..Len(fig.calls) :
         /\ fig.calls[i] <= max_elems_per_class
         /\ fig.calls[i] <= geom.classes[i].n
    /\ \A i \in 1..Len(fig.data) :
         /\ fig.data[i].meshes <= max_elems_per_class
         /\ \E k \in 1..Len(geom.classes) :
              /\ geom.classes[k].cls = fig.data[i].name
              /\ fig.data[i].meshes <= fig.calls[k]
    /\ RenderedCount <= max_elems_per_class * Len(geom.classes)

\* The case of the fixed cap acting: a type with more than 1200 elements
\* contributed exactly
\* 1200 meshes, and the figure holds more meshes than one type may give.
C9_Witness ==
  /\ gpc = "plotted"
  /\ \E i \in 1..Len(fig.data) :
       /\ fig.data[i].meshes = max_elems_per_class
       /\ \E k \in 1..Len(geom.classes) :
            geom.classes[k].cls = fig.data[i].name /\ geom.classes[k].n > max_elems_per_class
  /\ RenderedCount > max_elems_per_class

\* C10: when the sampler went through all requested types and rendered
\* nothing, the figure is not empty: it holds one placeholder shape and a
\* diagnostic note.
C10_PlaceholderWhenNothingRendered ==
  (gpc = "plotted" /\ geom.IFC_GEOM_OK /\ RenderedCount = 0)
    => Len(fig.data) = 1 /\ Len(fig.annotations) >= 1


-----------------------------------------------------------------------------
(* The session: every event runs the script from its first line to its     *)
(* last (or to st.stop() / st.rerun()).  Only st.session_state.chat and    *)
(* the sidebar's file selection outlive a run; ifc, index and fig are      *)
(* locals of the run.                                                      *)

\* The models a session can load.
SessionModels ==
  { Model(<< >>, << >>, << >>),
    Model(<<Office1>>, <<Rel(Office1, WallUpper)>>, << >>),
    Model(<<RaumA, RaumB>>, <<Rel(RaumA, FanAir), Rel(RaumB, Sensor5)>>, << >>) }

\* The questions a session can ask.
SessionQuestions == {Questions[i] : i \in {2, 3, 17}}

\* The entities of the model: its spaces and the elements its relationship
\* records name.
Entities(m) ==
  Range(m.spaces)
    \cup UNION {Range(m.contained[i].RelatedElements) : i \in 1..Len(m.contained)}
    \cup UNION {Range(m.referenced[i].RelatedElements) : i \in 1..Len(m.referenced)}

\* What the viewer reads of the model: ifc.by_type(cls) of every default
\* class; every element of a session's model has a shape.
GeomOf(m, ok) ==
  [IFC_GEOM_OK |-> ok,
   classes |-> [i \in 1..Len(DefaultClasses) |->
                  [cls |-> DefaultClasses[i], by_type_raises |-> FALSE,
                   n |-> Cardinality({e \in Entities(m) : e.cls = DefaultClasses[i]}),
                   fail_every |-> 0]]]

\* The session before its first script run: a file is selected, nothing is
\* opened yet.
InitSession ==
  /\ ifc \in SessionModels
  /\ index = NoIndex
  /\ merged = << >>
  /\ question = << >>
  /\ response = NoResponse
  /\ pc = "start"
  /\ \E ok \in BOOLEAN : geom = GeomOf(ifc, ok)
  /\ fig = NoFig
  /\ gpc = "ready"
  /\ chat = << >>
  /\ builds = 0
  /\ runs = 0

\* One run of the script on the selected file m with chat input q (<< >>
\* when nothing was submitted): open, build the index, plot, show the chat,
\* and answer q if there is one.
ScriptRun(m, q) ==
  /\ runs < MaxRuns
  /\ runs' = runs + 1
  /\ ifc' = m
  /\ index' = build_room_index(m)
  /\ merged' = MergedOf(m)
  /\ builds' = IF m = ifc THEN builds + 1 ELSE 1
  /\ geom' = GeomOf(m, geom.IFC_GEOM_OK)
  /\ fig' = plot_ifc_mesh_basic(geom')
  /\ gpc' = "plotted"
  /\ question' = IF Truthy(q) THEN q ELSE << >>
  /\ response' = IF Truthy(q) THEN answer(q, index') ELSE NoResponse
  /\ chat' = IF Truthy(q) THEN ChatAnswered(q, response') ELSE ChatShown
  /\ pc' = IF Truthy(q) /\ ~response'.raised THEN "answered" ELSE "idle"

\* The page is opened, or reloaded while it shows a model: a run with the
\* same file and no chat input.
PageRerun ==
  /\ pc \in {"start", "idle"}
  /\ ScriptRun(ifc, << >>)

\* A run that finds another file selected in the sidebar (or a file again
\* after a run that stopped); the run st.rerun() starts can be that run.
LoadModel ==
  /\ pc \in {"idle", "stopped", "answered"}
  /\ \E m \in SessionModels :
       /\ m # ifc \/ pc = "stopped"
       /\ ScriptRun(m, << >>)

\* A run the script ends with st.stop() before the model is opened:
\* ifcopenshell is missing, default.ifc is missing, or nothing is uploaded.
\* The run has no index and no figure.  Any run can be that run, the first
\* and the one st.rerun() starts included.
RunWithoutFile ==
  /\ pc \in {"start", "idle", "stopped", "answered"}
  /\ runs < MaxRuns
  /\ runs' = runs + 1
  /\ index' = NoIndex
  /\ merged' = << >>
  /\ question' = << >>
  /\ response' = NoResponse
  /\ fig' = NoFig
  /\ gpc' = "ready"
  /\ pc' = "stopped"
  /\ UNCHANGED <<ifc, geom, chat, builds>>

\* A question is submitted in the chat input: a run with user_q = q, on
\* the file the run finds selected (the same as before, or another).
SubmitQuestion ==
  /\ pc = "idle"
  /\ \E m \in SessionModels : \E q \in SessionQuestions : ScriptRun(m, q)

\* st.rerun() after an answer: the next run, with no chat input, when the
\* selected file is as it was.
StRerun ==
  /\ pc = "answered"
  /\ ScriptRun(ifc, << >>)

NextSession == PageRerun \/ LoadModel \/ RunWithoutFile \/ SubmitQuestion \/ StRerun

SpecSession == InitSession /\ [][NextSession]_vars

-----------------------------------------------------------------------------
(* Properties of the session (SpecSession).                                *)

\* The last run got as far as the index.
Indexed == pc \in {"idle", "answered"}

\* C11 as stated: the index is constructed exactly once per loaded model;
\* while the model's content is unchanged no further build happens, so
\* whenever a run has left an index it is the one build made for this
\* content, also after a chat question was submitted.
C11_BuiltOncePerModel == Indexed => builds = 1

\* Every run that gets to the index holds the index of the loaded model,
\* equal to the one the run before held for the same content.
SessionIndexOfModel == Indexed => index = build_room_index(ifc)

====
